---- MODULE Spec2Model ----
(***************************************************************************)
(* The chunking, embedding and retrieval pipeline of JunitGeneratorAPI:    *)
(* app/rag/ingestion.py, app/rag/retrieval.py and the /rag router of       *)
(* app/controller/rag_ingestion_controller.py.                             *)
(*                                                                         *)
(* Four specifications share the module:                                   *)
(*   SpecEmbed  one call of the embedding function, its provider requests  *)
(*              answered in any order;                                     *)
(*   SpecParse  parse_java_code applied to every source text of a bounded  *)
(*              size;                                                      *)
(*   Spec       ingest runs and retrievals over the shared vector index;   *)
(*   SpecGen    the /generate_tests/ endpoint of                           *)
(*              app/controller/generateTest_controller.py: two requests    *)
(*              for one id over the job record and the extraction folder.  *)
(***************************************************************************)
EXTENDS Integers, Sequences, FiniteSets, TLC

VARIABLES
    index,       \* the Chroma collection "java_code": id -> entry
    uuids,       \* how many identifiers uuid4 has handed out
    ing,         \* the ingest_project task
    ret,         \* the retrieval task (retrieve_context or retrieve_code)
    parseIn,     \* parse_java_code: its arguments code, file_path, project_id
    parseOut,    \* parse_java_code: the chunk list it returned
    parsePc,     \* "idle" | "ready" | "returned"
    embTexts,    \* __call__: the input list of the embedding call
    embCalls,    \* the provider requests of the call: prompt and response
    embDone,     \* the requests' results, in the order they completed
    embResult,   \* what the call returned
    embPc,       \* "idle" | "gathering" | "returned"
    env,         \* the upload of the id: its archive and where paths resolve
    job,         \* the status of the id's row of public.unittest
    xdir,        \* the folder temp_extracted/<id> of the working directory
    reqs         \* the generate_java_tests requests for the id

embVars == <<embTexts, embCalls, embDone, embResult, embPc>>

parseVars == <<parseIn, parseOut, parsePc>>

mainVars == <<index, uuids, ing, ret>>

genVars == <<env, job, xdir, reqs>>

vars == <<mainVars, parseVars, embVars, genVars>>

(***************************************************************************)
(* Values                                                                  *)
(***************************************************************************)

\* The literal 768 of `[0.0] * 768`.
EMBED_DIM == 768

\* The most texts one embedding call of SpecEmbed is given.
MaxTexts == 3

None == [none |-> TRUE]

Min(a, b) == IF a <= b THEN a ELSE b

SeqsUpTo(S, n) == UNION {[1..k -> S] : k \in 0..n}

\* A vector is kept in run-length form: dim components, each equal to fill.
\* Its length is dim.
Vector(dim, fill) == [dim |-> dim, fill |-> fill]

VecLen(v) == v.dim

\* [0.0] * 768
ZeroVector == Vector(EMBED_DIM, 0)

\* An exception object, as asyncio.gather(return_exceptions=True) hands it on.
Exc(name) == [exc |-> name]

IsException(r) == "exc" \in DOMAIN r

\* No embedding call has been made.
EmbedIdle ==
    /\ embTexts = <<>>
    /\ embCalls = <<>>
    /\ embDone = <<>>
    /\ embResult = None
    /\ embPc = "idle"

\* No ingest run has been started.
IngIdle ==
    [pc |-> "idle", variant |-> "", project_id |-> "", files |-> 0,
     all_chunks |-> <<>>, i |-> 0, embeddings |-> <<>>, result |-> None,
     error |-> "", before |-> 0, calls |-> 0, upserts |-> 0, resps |-> <<>>]

\* No retrieval has been started.
RetIdle ==
    [pc |-> "idle", variant |-> "", project_id |-> "", query |-> "",
     n_results |-> 0, embedding |-> None, hits |-> <<>>, result |-> <<>>,
     error |-> "", calls |-> 0, queries |-> 0]

\* The collection is empty and no task has run.
MainIdle ==
    /\ index = <<>>
    /\ uuids = 0
    /\ ing = IngIdle
    /\ ret = RetIdle

\* parse_java_code has not been called.
ParseIdle ==
    /\ parseIn = None
    /\ parseOut = <<>>
    /\ parsePc = "idle"

\* The two requests for one id that SpecGen interleaves.
Requests == {"r1", "r2"}

\* No request has been made.
ReqIdle ==
    [pc |-> "idle", in_progress |-> FALSE, classes |-> 0, k |-> 0,
     written |-> {}, error |-> "", maven_pom |-> "", maven_tests |-> {},
     success |-> FALSE, status |-> "", set_status |-> ""]

NoFolder == [exists |-> FALSE, pom |-> "absent", tests |-> {}]

\* Nothing has been uploaded and no test generation has been asked for.
GenIdle ==
    /\ env = [zip |-> FALSE, pom |-> "absent", classes |-> 0, same_dir |-> TRUE]
    /\ job = "none"
    /\ xdir = NoFolder
    /\ reqs = [r \in Requests |-> ReqIdle]

(***************************************************************************)
(* The embedding provider (POST /api/embeddings).  A response is one of:   *)
(*   ok        status 200, a JSON body with an "embedding" field, whose    *)
(*             value is whatever the provider sent;                        *)
(*   timeout   no response within the client's timeout;                    *)
(*   status    a non-success status;                                       *)
(*   malformed status 200, a body that is not JSON;                        *)
(*   missing   status 200, a JSON body without an "embedding" field.       *)
(***************************************************************************)
ProviderVectors == {Vector(EMBED_DIM, 1), Vector(EMBED_DIM, 2), Vector(2, 1)}

FailureKinds == {"timeout", "status", "malformed", "missing"}

Responses ==
    {[kind |-> "ok", embedding |-> v] : v \in ProviderVectors}
        \cup {[kind |-> k] : k \in FailureKinds}

Pending == [kind |-> "pending"]

\* The texts SpecEmbed embeds.
Texts == {"foo", "bar"}

\* _embed_single with its try block only: the value or the exception of
\* client.post, raise_for_status, resp.json() and ["embedding"].
post_embeddings(resp) ==
    CASE resp.kind = "timeout"   -> Exc("TimeoutException")
      [] resp.kind = "status"    -> Exc("HTTPStatusError")
      [] resp.kind = "malformed" -> Exc("JSONDecodeError")
      [] resp.kind = "missing"   -> Exc("KeyError")
      [] OTHER                   -> resp.embedding

\* A fallback that returns an empty list instead of the zero vector.
embed_single_empty_fallback(resp) ==
    LET r == post_embeddings(resp)
    IN  IF IsException(r) THEN Vector(0, 0) ELSE r

\* _embed_single: every exception of the request becomes the zero vector.
_embed_single(resp) ==
    LET r == post_embeddings(resp)
    IN  IF IsException(r) THEN ZeroVector ELSE r

\* asyncio.gather(*aws, return_exceptions=True): the results in the order of
\* the awaitables, whatever the order they completed in.  done is the
\* completion log, a sequence of [idx, result].
gather(done, n) ==
    [i \in 1..n |->
        LET k == CHOOSE k \in 1..Len(done) : done[k].idx = i
        IN  done[k].result]

\* The results in the order of completion (asyncio.as_completed).
embed_batch_as_completed(done, n) ==
    [k \in 1..n |->
        IF IsException(done[k].result) THEN ZeroVector ELSE done[k].result]

\* _embed_batch: gather, then a zero vector for every exception object.
_embed_batch(done, n) ==
    LET results == gather(done, n)
    IN  [i \in 1..n |->
            IF IsException(results[i]) THEN ZeroVector ELSE results[i]]

(***************************************************************************)
(* The vector index: the Chroma collection "java_code", one store for      *)
(* every project.  An entry is [embedding, document, metadata].            *)
(***************************************************************************)

Range(seq) == {seq[k] : k \in DOMAIN seq}

\* The dimension the collection holds: that of its entries, 0 while empty.
CollectionDim(idx) ==
    IF DOMAIN idx = {} THEN 0
    ELSE VecLen(idx[CHOOSE id \in DOMAIN idx : TRUE].embedding)

\* collection.upsert(ids, embeddings, documents, metadatas): the collection
\* after it, or the error Chroma raises: lists of unequal length, an id
\* twice in one call, an empty embedding, or an embedding whose dimension
\* is not the collection's.
collection_upsert(idx, ids, embeddings, documents, metadatas) ==
    LET n == Len(ids)
        dim == IF CollectionDim(idx) # 0 THEN CollectionDim(idx)
               ELSE VecLen(embeddings[1])
    IN  IF Len(embeddings) # n \/ Len(documents) # n \/ Len(metadatas) # n
        THEN [ok |-> FALSE, error |-> "ValueError"]
        ELSE IF Cardinality(Range(ids)) # n
        THEN [ok |-> FALSE, error |-> "DuplicateIDError"]
        ELSE IF \E k \in 1..n : VecLen(embeddings[k]) = 0 \/ VecLen(embeddings[k]) # dim
        THEN [ok |-> FALSE, error |-> "InvalidDimensionException"]
        ELSE [ok |-> TRUE,
              index |-> [id \in DOMAIN idx \cup Range(ids) |->
                  IF id \in Range(ids)
                  THEN LET k == CHOOSE k \in 1..n : ids[k] = id
                       IN  [embedding |-> embeddings[k], document |-> documents[k],
                            metadata |-> metadatas[k]]
                  ELSE idx[id]]]

\* The squared L2 distance of two vectors of one dimension.
Distance(u, v) == u.dim * (u.fill - v.fill) * (u.fill - v.fill)

\* The metadata filter: every key of where has that value in meta.
Matches(meta, where) ==
    \A key \in DOMAIN where : key \in DOMAIN meta /\ meta[key] = where[key]

\* The n nearest of the ids S to embedding q, nearest first; equal distances
\* in the order of insertion.
RECURSIVE Nearest(_, _, _, _)
Nearest(idx, S, q, n) ==
    IF n = 0 \/ S = {} THEN <<>>
    ELSE LET key(id) == Distance(idx[id].embedding, q)
             m == CHOOSE x \in S : \A y \in S :
                      key(x) < key(y) \/ (key(x) = key(y) /\ x <= y)
         IN  <<m>> \o Nearest(idx, S \ {m}, q, n - 1)

\* collection.query(query_embeddings=[q], n_results=n, where=where): at most
\* n entries that satisfy the filter, or the error Chroma raises for an
\* embedding that is not of the collection's dimension.
collection_query(idx, q, n, where) ==
    IF DOMAIN idx = {}
    THEN [ok |-> TRUE, ids |-> <<>>, documents |-> <<>>, metadatas |-> <<>>,
          distances |-> <<>>]
    ELSE IF VecLen(q) # CollectionDim(idx)
    THEN [ok |-> FALSE, error |-> "InvalidDimensionException"]
    ELSE LET ids == Nearest(idx, {id \in DOMAIN idx : Matches(idx[id].metadata, where)},
                            q, n)
         IN  [ok |-> TRUE, ids |-> ids,
              documents |-> [k \in 1..Len(ids) |-> idx[ids[k]].document],
              metadatas |-> [k \in 1..Len(ids) |-> idx[ids[k]].metadata],
              distances |-> [k \in 1..Len(ids) |-> Distance(idx[ids[k]].embedding, q)]]

(***************************************************************************)
(* The embedding function as its callers use it                            *)
(***************************************************************************)

\* An embedding function that leaves out the texts whose request failed.
ollama_ef_drop_failed(input, resps) ==
    LET ok == SelectSeq(resps, LAMBDA r : r.kind = "ok")
    IN  [k \in 1..Len(ok) |-> ok[k].embedding]

\* ollama_ef(input): one request per text; resps[i] is the provider's
\* response to the request for text i.  The requests complete last first.
ollama_ef(input, resps) ==
    LET n == Len(input)
        done == [k \in 1..n |->
                    [idx |-> n + 1 - k, result |-> _embed_single(resps[n + 1 - k])]]
    IN  _embed_batch(done, n)

\* How the provider treats the requests of one call.
ProviderModes == {"up", "first_down", "last_short"}

Good == [kind |-> "ok", embedding |-> Vector(EMBED_DIM, 1)]

\* The responses to the n requests of a call: every text embedded; the first
\* request timing out; the last embedding of another length.
ProviderResponses(mode, n) ==
    [i \in 1..n |->
        CASE mode = "first_down" /\ i = 1 -> [kind |-> "timeout"]
          [] mode = "last_short" /\ i = n -> [kind |-> "ok", embedding |-> Vector(2, 1)]
          [] OTHER                        -> Good]

(***************************************************************************)
(* Uploaded archives: uploads/files/<project_id>.zip                       *)
(***************************************************************************)

BATCH_SIZE == 8

Projects == {"A", "B", "C", "D", "E"}

\* One class with one method.
SrcFoo == <<"class A {", "void foo() {", "x();", "}", "}">>

\* One class with seven methods.
SrcBig ==
    <<"package p;", "class A {",
      "void baz() { x(); y(); }", "void baz() { x(); y(); }",
      "void baz() { x(); y(); }", "void baz() { x(); y(); }",
      "void foo() {", "x();", "}", "void foo() {", "}", "void foo() {", "x();", "}",
      "}">>

\* An unbalanced text.
SrcBroken == <<"class A {", "void foo() {", "}">>

\* One interface with one method.
SrcIface == <<"interface I {", "void bar();", "}">>

File(name, content) == [name |-> name, content |-> content]

\* A: one file, one class, one method.  B: three files, one of them
\* ill-formed, eleven chunks.  C: files, none that parses.  D: no .java
\* file.  E: no archive.
Archive(project_id) ==
    CASE project_id = "A" ->
            [zip |-> TRUE, java |-> <<File("Foo.java", SrcFoo)>>]
      [] project_id = "B" ->
            [zip |-> TRUE, java |-> <<File("Big.java", SrcBig),
                                      File("Broken.java", SrcBroken),
                                      File("Iface.java", SrcIface)>>]
      [] project_id = "C" ->
            [zip |-> TRUE, java |-> <<File("Broken.java", SrcBroken)>>]
      [] project_id = "D" ->
            [zip |-> TRUE, java |-> <<>>]
      [] OTHER ->
            [zip |-> FALSE, java |-> <<>>]

\* The path list_java_files gives a file: relative to the extraction folder,
\* so its first component is the project id.
FilePath(project_id, name) == <<project_id, name>>

\* extract_project_zip and list_java_files: the .java files under
\* temp_extracted/<project_id>, each with its relative path and content.
list_java_files(project_id) ==
    LET java == Archive(project_id).java
    IN  [k \in 1..Len(java) |->
            [path |-> FilePath(project_id, java[k].name), content |-> java[k].content]]

(***************************************************************************)
(* Source texts.  A source text is its sequence of lines (code.splitlines) *)
(* and a line is one of LineSet.  Lines carry no indentation, so stripping *)
(* a text removes its leading and trailing blank lines.                    *)
(***************************************************************************)

\* The most lines of a source text SpecParse parses.
MaxLines == 4

\* A line that holds a form feed and nothing else: white space to the Java
\* tokenizer, which counts its lines by "\n", and a line boundary to
\* str.splitlines().
FormFeed == "\f"

LineSet ==
    { "",
      FormFeed,
      "package p;",
      "class A {",
      "interface I {",
      "void foo() {",
      "void bar();",
      "x();",
      "}",
      "void baz() { x(); y(); }" }

Tok(t, name) == [t |-> t, name |-> name]

\* The Java tokens of a line, as javalang's tokenizer groups them here: a
\* type header, a method header with or without a body, a statement, a
\* closing brace.
Tokens(line) ==
    CASE line = "package p;"    -> <<Tok("package", "p")>>
      [] line = "class A {"     -> <<Tok("class", "A")>>
      [] line = "interface I {" -> <<Tok("interface", "I")>>
      [] line = "void foo() {"  -> <<Tok("mopen", "foo")>>
      [] line = "void bar();"   -> <<Tok("mdecl", "bar")>>
      [] line = "x();"          -> <<Tok("stmt", "")>>
      [] line = "}"             -> <<Tok("close", "")>>
      [] line = "void baz() { x(); y(); }" ->
            <<Tok("mopen", "baz"), Tok("stmt", ""), Tok("stmt", ""), Tok("close", "")>>
      [] OTHER                  -> <<>>

\* The token stream of a text, each token with its 1-based line.
RECURSIVE TokenStream(_, _)
TokenStream(lines, n) ==
    IF n > Len(lines) THEN <<>>
    ELSE [k \in 1..Len(Tokens(lines[n])) |->
              [t |-> Tokens(lines[n])[k].t, name |-> Tokens(lines[n])[k].name,
               line |-> n]]
         \o TokenStream(lines, n + 1)

EmptyTree ==
    [ok |-> TRUE, package |-> FALSE, types |-> <<>>, classes |-> <<>>,
     methods |-> <<>>]

ParseError == [ok |-> FALSE]

\* javalang.parse.parse over the token stream: a compilation unit is an
\* optional package declaration and then a sequence of type declarations; a
\* type body holds methods and nested
\* types; a method body holds statements and local types.  stack holds the
\* open declarations, innermost last: 0 for a type, m > 0 for method m of
\* tree.methods.  Anything else is a syntax error.
RECURSIVE ParseTokens(_, _, _, _)
ParseTokens(toks, k, stack, tree) ==
    IF k > Len(toks)
    THEN IF stack = <<>> THEN tree ELSE ParseError
    ELSE
      LET tok == toks[k]
          top == IF stack = <<>> THEN -1 ELSE stack[Len(stack)]
          decl == [name |-> tok.name, position |-> [line |-> tok.line]]
          \* a statement or a local type is one more element of node.body
          counted ==
              IF top > 0
              THEN [tree EXCEPT !.methods[top].stmts = @ + 1]
              ELSE tree
      IN
      CASE tok.t \in {"class", "interface"} ->
              LET t1 == IF stack = <<>>
                        THEN [counted EXCEPT !.types = Append(@, decl)]
                        ELSE counted
                  t2 == IF tok.t = "class"
                        THEN [t1 EXCEPT !.classes = Append(@, decl)]
                        ELSE t1
              IN  ParseTokens(toks, k + 1, Append(stack, 0), t2)
        [] tok.t = "package" ->
              IF stack # <<>> \/ tree.package \/ tree.types # <<>> THEN ParseError
              ELSE ParseTokens(toks, k + 1, stack, [tree EXCEPT !.package = TRUE])
        [] tok.t = "mopen" ->
              IF top # 0 THEN ParseError
              ELSE LET m == [name |-> tok.name, position |-> [line |-> tok.line],
                             hasBody |-> TRUE, stmts |-> 0]
                       t1 == [tree EXCEPT !.methods = Append(@, m)]
                   IN  ParseTokens(toks, k + 1, Append(stack, Len(t1.methods)), t1)
        [] tok.t = "mdecl" ->
              IF top # 0 THEN ParseError
              ELSE LET m == [name |-> tok.name, position |-> [line |-> tok.line],
                             hasBody |-> FALSE, stmts |-> 0]
                   IN  ParseTokens(toks, k + 1, stack,
                                   [tree EXCEPT !.methods = Append(@, m)])
        [] tok.t = "stmt" ->
              IF top <= 0 THEN ParseError
              ELSE ParseTokens(toks, k + 1, stack, counted)
        [] OTHER -> \* "close"
              IF stack = <<>> THEN ParseError
              ELSE ParseTokens(toks, k + 1, SubSeq(stack, 1, Len(stack) - 1), tree)

\* javalang.parse.parse(code): the tree, or the parser's exception.
javalang_parse(code) == ParseTokens(TokenStream(code, 1), 1, <<>>, EmptyTree)

\* Python's seq[a:b] for b >= 0: a negative a counts from the end, and both
\* ends are clipped to the sequence.
PySlice(seq, a, b) ==
    LET n  == Len(seq)
        lo == IF a < 0 THEN (IF n + a < 0 THEN 0 ELSE n + a) ELSE Min(a, n)
        hi == Min(b, n)
    IN  SubSeq(seq, lo + 1, hi)

\* code.splitlines(): the lines of the text; a form feed is a line boundary
\* as "\n" is, so a line that holds one gives two lines.
RECURSIVE splitlines(_)
splitlines(code) ==
    IF code = <<>> THEN <<>>
    ELSE (IF code[1] = FormFeed THEN <<"", "">> ELSE <<code[1]>>)
             \o splitlines(Tail(code))

\* str.strip() of the text "\n".join(lines): the lines without the blank
\* ones at either end; white space is all a blank line holds.
RECURSIVE strip(_)
strip(lines) ==
    IF lines = <<>> THEN <<>>
    ELSE IF lines[1] \in {"", FormFeed} THEN strip(Tail(lines))
    ELSE IF lines[Len(lines)] \in {"", FormFeed}
         THEN strip(SubSeq(lines, 1, Len(lines) - 1))
    ELSE lines

\* Identifiers that repeat: the n-th is one of three.
uuid4_reused(n) == ((n - 1) % 3) + 1

\* str(uuid.uuid4()): the n-th identifier drawn is n.
uuid4(n) == n

\* f"class {node.name} {{ /* methods omitted */ }}"
ClassStub(name) ==
    IF name = "A" THEN <<"class A { /* methods omitted */ }">>
    ELSE <<"class ? { /* methods omitted */ }">>

\* start_line = node.position.line if node.position else 0
StartLine(node) == IF node.position = None THEN 0 ELSE node.position.line

\* getattr(node, 'end_line', start_line + (len(node.body) if node.body else 0)):
\* javalang's nodes have no end_line attribute, so the default is taken.
EndLine(node) ==
    StartLine(node) + (IF node.hasBody /\ node.stmts > 0 THEN node.stmts ELSE 0)

\* The method loop's candidates: a declaration is skipped when its sliced
\* body is empty after strip.
MethodBody(lines, node) == strip(PySlice(lines, StartLine(node) - 1, EndLine(node)))

MethodMeta(node, file_path, project_id) ==
    [project_id |-> project_id, file_path |-> file_path, type |-> "method",
     name |-> node.name, start_line |-> StartLine(node), end_line |-> EndLine(node)]

\* A class chunk that also carries the end line the method chunks carry.
ClassMeta_with_end_line(node, file_path, project_id) ==
    [project_id |-> project_id, file_path |-> file_path, type |-> "class",
     name |-> node.name, start_line |-> StartLine(node),
     end_line |-> StartLine(node)]

ClassMeta(node, file_path, project_id) ==
    [project_id |-> project_id, file_path |-> file_path, type |-> "class",
     name |-> node.name, start_line |-> StartLine(node)]

\* A full chunk whose metadata names no project.
FullMeta_no_project(tree, file_path, project_id) ==
    [project_id |-> "", file_path |-> file_path, type |-> "full_class",
     name |-> tree.types[1].name]

FullMeta(tree, file_path, project_id) ==
    [project_id |-> project_id, file_path |-> file_path, type |-> "full_class",
     name |-> tree.types[1].name]

\* A method loop that also skips the declarations without a body.
KeptMethods_skip_bodiless(code, tree) ==
    SelectSeq(tree.methods,
              LAMBDA m : MethodBody(splitlines(code), m) # <<>> /\ m.hasBody)

\* A method loop without `if not body: continue`.
KeptMethods_keep_all(code, tree) == tree.methods

\* The declarations the method loop keeps: `if not body: continue`.
KeptMethods(code, tree) ==
    SelectSeq(tree.methods, LAMBDA m : MethodBody(splitlines(code), m) # <<>>)

\* The chunks with the full chunk put first.
ChunkBodies_full_first(code, tree, file_path, project_id) ==
    LET kept == KeptMethods(code, tree)
        methods == [k \in 1..Len(kept) |->
                      [text |-> MethodBody(splitlines(code), kept[k]),
                       metadata |-> MethodMeta(kept[k], file_path, project_id)]]
        classes == [k \in 1..Len(tree.classes) |->
                      [text |-> ClassStub(tree.classes[k].name),
                       metadata |-> ClassMeta(tree.classes[k], file_path, project_id)]]
        full == IF tree.types # <<>>
                THEN <<[text |-> strip(code),
                        metadata |-> FullMeta(tree, file_path, project_id)]>>
                ELSE <<>>
    IN  full \o methods \o classes

\* The chunks of the three loops in order, before their ids are drawn.
ChunkBodies(code, tree, file_path, project_id) ==
    LET kept == KeptMethods(code, tree)
        methods == [k \in 1..Len(kept) |->
                      [text |-> MethodBody(splitlines(code), kept[k]),
                       metadata |-> MethodMeta(kept[k], file_path, project_id)]]
        classes == [k \in 1..Len(tree.classes) |->
                      [text |-> ClassStub(tree.classes[k].name),
                       metadata |-> ClassMeta(tree.classes[k], file_path, project_id)]]
        full == IF tree.types # <<>>
                THEN <<[text |-> strip(code),
                        metadata |-> FullMeta(tree, file_path, project_id)]>>
                ELSE <<>>
    IN  methods \o classes \o full

\* An except clause that falls back to one chunk holding the whole text.
parse_java_code_whole_text_on_error(code, file_path, project_id, drawn) ==
    LET tree == javalang_parse(code)
        bodies == IF tree.ok
                  THEN ChunkBodies(code, tree, file_path, project_id)
                  ELSE <<[text |-> strip(code),
                          metadata |-> [project_id |-> project_id,
                                        file_path |-> file_path,
                                        type |-> "full_class", name |-> "Unknown"]]>>
    IN  [k \in 1..Len(bodies) |->
            [id |-> uuid4(drawn + k), text |-> bodies[k].text,
             metadata |-> bodies[k].metadata]]

\* parse_java_code(code, file_path, project_id); drawn is the number of
\* identifiers uuid4 has handed out before the call.
parse_java_code(code, file_path, project_id, drawn) ==
    LET tree == javalang_parse(code)
    IN  IF ~tree.ok THEN <<>>
        ELSE LET bodies == ChunkBodies(code, tree, file_path, project_id)
             IN  [k \in 1..Len(bodies) |->
                     [id |-> uuid4(drawn + k), text |-> bodies[k].text,
                      metadata |-> bodies[k].metadata]]

(***************************************************************************)
(* SpecParse: parse_java_code on one source text                           *)
(***************************************************************************)

\* The arguments of a call: any source text of at most MaxLines lines, read
\* from a file of any project.
ParseReady ==
    /\ \E code \in SeqsUpTo(LineSet, MaxLines), p \in Projects :
          parseIn = [code |-> code, file_path |-> FilePath(p, "F.java"),
                     project_id |-> p]
    /\ parseOut = <<>>
    /\ parsePc = "ready"

ParseFile ==
    /\ parsePc = "ready"
    /\ parseOut' = parse_java_code(parseIn.code, parseIn.file_path,
                                   parseIn.project_id, 0)
    /\ parsePc' = "returned"
    /\ UNCHANGED parseIn
    /\ UNCHANGED <<mainVars, embVars, genVars>>

InitParse == ParseReady /\ EmbedIdle /\ MainIdle /\ GenIdle

NextParse == ParseFile

SpecParse == InitParse /\ [][NextParse]_vars

(***************************************************************************)
(* SpecEmbed: one call ollama_ef(input)                                    *)
(***************************************************************************)

\* __call__(input): asyncio.run(_embed_batch(input)) starts one request per
\* text, all of them in flight at once.
EmbedCall(texts) ==
    /\ embPc = "idle"
    /\ embTexts' = texts
    /\ embCalls' = [i \in 1..Len(texts) |-> [prompt |-> texts[i], resp |-> Pending]]
    /\ embDone' = <<>>
    /\ embPc' = "gathering"
    /\ UNCHANGED embResult
    /\ UNCHANGED <<mainVars, parseVars, genVars>>

\* The provider answers request i, or the request times out: _embed_single
\* of text i completes.
ProviderRespond(i, resp) ==
    /\ embPc = "gathering"
    /\ i \in DOMAIN embCalls
    /\ embCalls[i].resp = Pending
    /\ embCalls' = [embCalls EXCEPT ![i].resp = resp]
    /\ embDone' = Append(embDone, [idx |-> i, result |-> _embed_single(resp)])
    /\ UNCHANGED <<embTexts, embResult, embPc>>
    /\ UNCHANGED <<mainVars, parseVars, genVars>>

\* All requests are complete: _embed_batch returns and __call__ hands the
\* list to its caller (future.result()).
EmbedReturn ==
    /\ embPc = "gathering"
    /\ \A i \in DOMAIN embCalls : embCalls[i].resp # Pending
    /\ embResult' = _embed_batch(embDone, Len(embTexts))
    /\ embPc' = "returned"
    /\ UNCHANGED <<embTexts, embCalls, embDone>>
    /\ UNCHANGED <<mainVars, parseVars, genVars>>

InitEmbed == EmbedIdle /\ ParseIdle /\ MainIdle /\ GenIdle

NextEmbed ==
    \/ \E texts \in SeqsUpTo(Texts, MaxTexts) : EmbedCall(texts)
    \/ \E i \in 1..MaxTexts, resp \in Responses : ProviderRespond(i, resp)
    \/ EmbedReturn

SpecEmbed == InitEmbed /\ [][NextEmbed]_vars

(***************************************************************************)
(* Spec: ingest runs and retrievals.  Both handlers are coroutines of one  *)
(* event loop.  ingest_project never awaits, so a run, once started, holds *)
(* the loop until it returns or raises; retrieve_code never awaits either. *)
(* retrieve_context awaits its embedding, which a worker thread computes.  *)
(***************************************************************************)

\* The most identifiers uuid4 hands out in a behaviour: an ingest run starts
\* only if its chunks leave the count within it.
MaxUuids == 14

\* The largest n_results a caller of retrieve_context asks for.
MaxResults == 2

Queries == {"", "  ", "foo"}

\* str.strip() of a query.
query_strip(query) == IF query \in {"", "  "} THEN "" ELSE query

\* A coroutine that holds the event loop: an ingest run between its start
\* and its end, or retrieve_code inside its blocking embedding call.
IngestRunning == ing.pc \in {"embed", "upsert"}

RetrieveCodeRunning == ret.variant = "code" /\ ret.pc = "embedding"

\* A task has returned or raised and its caller has not yet taken the
\* outcome.  The caller takes it before anything else happens.
Returning == ing.pc \in {"done", "failed"} \/ ret.pc \in {"done", "failed"}

EntriesOf(idx, project_id) ==
    {id \in DOMAIN idx : idx[id].metadata.project_id = project_id}

\* A loop over java_files that a file without chunks ends.
RECURSIVE ParseFiles_stop_at_failure(_, _, _, _)
ParseFiles_stop_at_failure(files, k, project_id, n) ==
    IF k > Len(files) THEN <<>>
    ELSE LET chunks == parse_java_code(files[k].content, files[k].path, project_id, n)
         IN  IF chunks = <<>> THEN <<>>
             ELSE chunks \o ParseFiles_stop_at_failure(files, k + 1, project_id,
                                                       n + Len(chunks))

\* The loop over java_files: the chunks of every file, in file order, each
\* file's identifiers drawn after those of the files before it.
RECURSIVE ParseFiles(_, _, _, _)
ParseFiles(files, k, project_id, n) ==
    IF k > Len(files) THEN <<>>
    ELSE LET chunks == parse_java_code(files[k].content, files[k].path, project_id, n)
         IN  chunks \o ParseFiles(files, k + 1, project_id, n + Len(chunks))

\* A slice that runs one element into the next batch.
Batch_overlapping(seq, i) == PySlice(seq, i, i + BATCH_SIZE + 1)

\* texts[i:i + BATCH_SIZE] and its like, for the 0-based offset i.
Batch(seq, i) == PySlice(seq, i, i + BATCH_SIZE)

\* ingest_project up to its batch loop: extract the archive, list and parse
\* the files.  variant "rag" is app/rag/ingestion.py, "router" the endpoint
\* of rag_ingestion_controller.py.
IngestStart(project_id, variant) ==
    /\ ing.pc = "idle"
    /\ ~Returning
    /\ ~RetrieveCodeRunning
    /\ uuids + Len(ParseFiles(list_java_files(project_id), 1, project_id, uuids))
          <= MaxUuids
    /\ LET run == [IngIdle EXCEPT !.variant = variant, !.project_id = project_id,
                                  !.before = Cardinality(EntriesOf(index, project_id))]
           files == list_java_files(project_id)
           all_chunks == ParseFiles(files, 1, project_id, uuids)
       IN  IF ~Archive(project_id).zip
           THEN \* extract_project_zip raises
                /\ ing' = [run EXCEPT !.pc = "failed",
                              !.error = IF variant = "rag" THEN "FileNotFoundError"
                                        ELSE "HTTPException 404"]
                /\ UNCHANGED uuids
           ELSE IF files = <<>>
           THEN \* if not java_files
                /\ ing' = IF variant = "rag"
                          THEN [run EXCEPT !.pc = "done"]
                          ELSE [run EXCEPT !.pc = "failed", !.error = "HTTPException 400"]
                /\ UNCHANGED uuids
           ELSE IF all_chunks = <<>>
           THEN \* if not all_chunks
                /\ ing' = IF variant = "rag"
                          THEN [run EXCEPT !.pc = "done", !.files = Len(files)]
                          ELSE [run EXCEPT !.pc = "done", !.files = Len(files),
                                    !.result = [status |-> "warning",
                                                 message |-> "No code chunks parsed"]]
                /\ UNCHANGED uuids
           ELSE /\ ing' = [run EXCEPT !.pc = "embed", !.files = Len(files),
                               !.all_chunks = all_chunks]
                /\ uuids' = uuids + Len(all_chunks)
    /\ UNCHANGED <<index, ret>>
    /\ UNCHANGED <<parseVars, embVars, genVars>>

\* A loop that embeds the texts of all the chunks in each of its rounds.
IngestEmbed_all_texts(mode) ==
    /\ ing.pc = "embed"
    /\ ~Returning
    /\ LET texts == [k \in 1..Len(ing.all_chunks) |-> ing.all_chunks[k].text]
       IN  ing' = [ing EXCEPT
                     !.pc = "upsert",
                     !.embeddings = ollama_ef(texts, ProviderResponses(mode, Len(texts))),
                     !.resps = ProviderResponses(mode, Len(texts)),
                     !.calls = @ + Len(texts)]
    /\ UNCHANGED <<index, uuids, ret>>
    /\ UNCHANGED <<parseVars, embVars, genVars>>

\* embeddings = ollama_ef(batch_texts) for the batch at offset i; resps is
\* what the provider answered to the requests of the call.
IngestEmbed(mode) ==
    /\ ing.pc = "embed"
    /\ ~Returning
    /\ LET texts == [k \in 1..Len(ing.all_chunks) |-> ing.all_chunks[k].text]
           batch_texts == Batch(texts, ing.i)
       IN  ing' = [ing EXCEPT
                     !.pc = "upsert",
                     !.embeddings = ollama_ef(batch_texts,
                                        ProviderResponses(mode, Len(batch_texts))),
                     !.resps = ProviderResponses(mode, Len(batch_texts)),
                     !.calls = @ + Len(batch_texts)]
    /\ UNCHANGED <<index, uuids, ret>>
    /\ UNCHANGED <<parseVars, embVars, genVars>>

\* A batch loop whose except clause logs the failure and goes on to the
\* next batch.
IngestUpsert_continue_on_error ==
    /\ ing.pc = "upsert"
    /\ ~Returning
    /\ LET n == Len(ing.all_chunks)
           texts == [k \in 1..n |-> ing.all_chunks[k].text]
           ids == [k \in 1..n |-> ing.all_chunks[k].id]
           metadatas == [k \in 1..n |-> ing.all_chunks[k].metadata]
           r == collection_upsert(index, Batch(ids, ing.i), ing.embeddings,
                                  Batch(texts, ing.i), Batch(metadatas, ing.i))
       IN  /\ index' = IF r.ok THEN r.index ELSE index
           /\ ing' = IF ing.i + BATCH_SIZE < n
                     THEN [ing EXCEPT !.pc = "embed", !.i = @ + BATCH_SIZE,
                               !.upserts = @ + 1]
                     ELSE [ing EXCEPT !.pc = "done", !.upserts = @ + 1]
    /\ UNCHANGED <<uuids, ret>>
    /\ UNCHANGED <<parseVars, embVars, genVars>>

\* collection.upsert of the batch at offset i, then the next batch or the
\* end of the run; an exception of the upsert ends the run.
IngestUpsert ==
    /\ ing.pc = "upsert"
    /\ ~Returning
    /\ LET n == Len(ing.all_chunks)
           texts == [k \in 1..n |-> ing.all_chunks[k].text]
           ids == [k \in 1..n |-> ing.all_chunks[k].id]
           metadatas == [k \in 1..n |-> ing.all_chunks[k].metadata]
           r == collection_upsert(index, Batch(ids, ing.i), ing.embeddings,
                                  Batch(texts, ing.i), Batch(metadatas, ing.i))
       IN  IF ~r.ok
           THEN /\ ing' = [ing EXCEPT !.pc = "failed", !.error = r.error,
                               !.upserts = @ + 1]
                /\ UNCHANGED index
           ELSE /\ index' = r.index
                /\ ing' = IF ing.i + BATCH_SIZE < n
                          THEN [ing EXCEPT !.pc = "embed", !.i = @ + BATCH_SIZE,
                                    !.upserts = @ + 1]
                          ELSE [ing EXCEPT
                                    !.pc = "done", !.upserts = @ + 1,
                                    !.result =
                                        IF ing.variant = "rag" THEN None
                                        ELSE [status |-> "success",
                                              project_id |-> ing.project_id,
                                              files |-> ing.files, chunks |-> n]]
    /\ UNCHANGED <<uuids, ret>>
    /\ UNCHANGED <<parseVars, embVars, genVars>>

\* meta.get(key) of a line number, without the default.
LineOr_none(meta, key) == IF key \in DOMAIN meta THEN ToString(meta[key]) ELSE "None"

\* meta.get(key, "?") of a line number, as the f-string prints it.
LineOr(meta, key) == IF key \in DOMAIN meta THEN ToString(meta[key]) ELSE "?"

\* A query of the index without the project filter.
retrieve_context_query_unfiltered(idx, query_embedding, n_results, project_id) ==
    collection_query(idx, query_embedding, n_results, <<>>)

\* A query of the index for five results whatever the caller asked for.
retrieve_context_query_five(idx, query_embedding, n_results, project_id) ==
    collection_query(idx, query_embedding, 5, [project_id |-> project_id])

\* A query of the index for the default of n_results, 10, whatever the
\* caller asked for.
retrieve_context_query_default(idx, query_embedding, n_results, project_id) ==
    collection_query(idx, query_embedding, 10, [project_id |-> project_id])

\* retrieve_context's query of the index.
retrieve_context_query(idx, query_embedding, n_results, project_id) ==
    collection_query(idx, query_embedding, n_results, [project_id |-> project_id])

\* retrieve_code's query of the index.
retrieve_code_query(idx, query_embedding, project_id) ==
    collection_query(idx, query_embedding, 5, [project_id |-> project_id])

\* A retrieve_context that answers an empty response with a note in place
\* of the empty string.
format_context_no_results_note(results) ==
    IF Len(results.ids) = 0
    THEN <<[rank |-> 0, name |-> "Unknown", file_path |-> "?",
            lines |-> <<"?", "?">>, code |-> <<"// no relevant code found">>]>>
    ELSE [i \in 1..Len(results.ids) |->
            [rank |-> i,
             name |-> results.metadatas[i].name,
             file_path |-> results.metadatas[i].file_path,
             lines |-> <<LineOr(results.metadatas[i], "start_line"),
                         LineOr(results.metadatas[i], "end_line")>>,
             code |-> strip(results.documents[i])]]

\* retrieve_context: one "// [rank] name | file_path:lines" header and the
\* code per hit; no hit gives the empty string.
format_context(results) ==
    [i \in 1..Len(results.ids) |->
        [rank |-> i,
         name |-> results.metadatas[i].name,
         file_path |-> results.metadatas[i].file_path,
         lines |-> <<LineOr(results.metadatas[i], "start_line"),
                     LineOr(results.metadatas[i], "end_line")>>,
         code |-> strip(results.documents[i])]]

\* retrieve_code: the hits of the response.
format_hits(results) ==
    [i \in 1..Len(results.ids) |->
        [rank |-> i,
         score |-> results.distances[i],
         type |-> results.metadatas[i].type,
         name |-> results.metadatas[i].name,
         file |-> results.metadatas[i].file_path,
         lines |-> <<LineOr(results.metadatas[i], "start_line"),
                     LineOr(results.metadatas[i], "end_line")>>,
         code |-> strip(results.documents[i])]]

\* retrieve_context(project_id, query, n_results) up to its await: the
\* embedding of [query] is handed to a worker thread.
RetrieveContextStart(project_id, query, n_results) ==
    /\ ret.pc = "idle"
    /\ ~Returning
    /\ ~IngestRunning
    /\ ret' = [RetIdle EXCEPT !.pc = "embedding", !.variant = "context",
                              !.project_id = project_id, !.query = query,
                              !.n_results = n_results]
    /\ UNCHANGED <<index, uuids, ing>>
    /\ UNCHANGED <<parseVars, embVars, genVars>>

\* The worker thread: ollama_ef([query]) returns.
RetrieveContextEmbedded(mode) ==
    /\ ret.variant = "context"
    /\ ret.pc = "embedding"
    /\ ~Returning
    /\ ret' = [ret EXCEPT !.pc = "embedded",
                          !.embedding = ollama_ef(<<ret.query>>,
                                                  ProviderResponses(mode, 1))[1],
                          !.calls = @ + 1]
    /\ UNCHANGED <<index, uuids, ing>>
    /\ UNCHANGED <<parseVars, embVars, genVars>>

\* retrieve_context after its await: query the index and format the hits.
RetrieveContextResume ==
    /\ ret.variant = "context"
    /\ ret.pc = "embedded"
    /\ ~Returning
    /\ ~IngestRunning
    /\ LET results == retrieve_context_query(index, ret.embedding, ret.n_results,
                                             ret.project_id)
       IN  ret' = IF ~results.ok
                  THEN [ret EXCEPT !.pc = "failed", !.error = results.error,
                                   !.queries = @ + 1]
                  ELSE [ret EXCEPT !.pc = "done", !.queries = @ + 1,
                                   !.hits = results.metadatas,
                                   !.result = format_context(results)]
    /\ UNCHANGED <<index, uuids, ing>>
    /\ UNCHANGED <<parseVars, embVars, genVars>>

\* retrieve_code(project_id, request) up to its embedding call: the query
\* is stripped and an empty one refused.
RetrieveCodeStart(project_id, query) ==
    /\ ret.pc = "idle"
    /\ ~Returning
    /\ ~IngestRunning
    /\ ret' = IF query_strip(query) = ""
              THEN [RetIdle EXCEPT !.pc = "failed", !.variant = "code",
                                   !.project_id = project_id, !.query = query,
                                   !.n_results = 5, !.error = "HTTPException 400"]
              ELSE [RetIdle EXCEPT !.pc = "embedding", !.variant = "code",
                                   !.project_id = project_id,
                                   !.query = query_strip(query), !.n_results = 5]
    /\ UNCHANGED <<index, uuids, ing>>
    /\ UNCHANGED <<parseVars, embVars, genVars>>

\* retrieve_code from its embedding call on: embed the query on the event
\* loop's own thread, query the index and format the hits.
RetrieveCodeFinish(mode) ==
    /\ ret.variant = "code"
    /\ ret.pc = "embedding"
    /\ ~Returning
    /\ LET query_embedding == ollama_ef(<<ret.query>>, ProviderResponses(mode, 1))[1]
           results == retrieve_code_query(index, query_embedding, ret.project_id)
       IN  ret' = IF ~results.ok
                  THEN [ret EXCEPT !.pc = "failed", !.error = results.error,
                                   !.embedding = query_embedding,
                                   !.calls = @ + 1, !.queries = @ + 1]
                  ELSE [ret EXCEPT !.pc = "done", !.embedding = query_embedding,
                                   !.calls = @ + 1, !.queries = @ + 1,
                                   !.hits = results.metadatas,
                                   !.result = format_hits(results)]
    /\ UNCHANGED <<index, uuids, ing>>
    /\ UNCHANGED <<parseVars, embVars, genVars>>

\* The caller of ingest_project takes its result or its exception.
IngestReturn ==
    /\ ing.pc \in {"done", "failed"}
    /\ ing' = IngIdle
    /\ UNCHANGED <<index, uuids, ret>>
    /\ UNCHANGED <<parseVars, embVars, genVars>>

\* The caller of the retrieval takes its result or its exception.
RetrieveReturn ==
    /\ ret.pc \in {"done", "failed"}
    /\ ret' = RetIdle
    /\ UNCHANGED <<index, uuids, ing>>
    /\ UNCHANGED <<parseVars, embVars, genVars>>

Init == MainIdle /\ ParseIdle /\ EmbedIdle /\ GenIdle

Next ==
    \/ \E p \in Projects, variant \in {"rag", "router"} : IngestStart(p, variant)
    \/ \E mode \in ProviderModes : IngestEmbed(mode)
    \/ IngestUpsert
    \/ IngestReturn
    \/ \E p \in Projects, q \in Queries, n \in 1..MaxResults :
          RetrieveContextStart(p, q, n)
    \/ \E mode \in ProviderModes : RetrieveContextEmbedded(mode)
    \/ RetrieveContextResume
    \/ \E p \in Projects, q \in Queries : RetrieveCodeStart(p, q)
    \/ \E mode \in ProviderModes : RetrieveCodeFinish(mode)
    \/ RetrieveReturn

Spec == Init /\ [][Next]_vars

(***************************************************************************)
(* The embedding client                                                    *)
(***************************************************************************)

\* What the provider's response to request i makes of text i: the vector it
\* sent, or the zero vector of 768 components when the request failed.
Failed(i) == embCalls[i].resp.kind \in FailureKinds

\* C2: embed returns one vector per input text, in input order: the i-th
\* vector returned is the result of the request made for the i-th text,
\* whatever the order in which the requests completed.
C2_OneVectorPerTextInOrder ==
    embPc = "returned" =>
        /\ DOMAIN embResult = 1..Len(embTexts)
        /\ \A i \in 1..Len(embTexts) :
              /\ embCalls[i].prompt = embTexts[i]
              /\ \E k \in 1..Len(embDone) :
                    embDone[k].idx = i /\ embResult[i] = embDone[k].result

\* A call of two or more texts whose requests completed out of input order
\* with different results.
C2_Witness ==
    /\ embPc = "returned"
    /\ Len(embTexts) >= 2
    /\ embDone[1].idx # 1
    /\ embResult[1] # embResult[2]

\* C3: every vector embed returns has length EMBED_DIM, whatever the
\* provider answered.
C3_EveryVectorHasEmbedDim ==
    embPc = "returned" =>
        \A i \in 1..Len(embTexts) : VecLen(embResult[i]) = EMBED_DIM

\* C4: a failed request gives its own text the all-zero vector of 768
\* components, every other text of the batch keeps the vector the provider
\* sent for it, and the call returns.
C4_FailureIsolation ==
    /\ embPc \in {"idle", "gathering", "returned"}
    /\ embPc = "returned" =>
          \A i \in 1..Len(embTexts) :
              IF Failed(i)
              THEN embResult[i] = [dim |-> 768, fill |-> 0]
              ELSE embResult[i] = embCalls[i].resp.embedding

\* A returned batch with a failed request and a successful one.
C4_Witness ==
    /\ embPc = "returned"
    /\ \E i, j \in 1..Len(embTexts) :
          /\ Failed(i)
          /\ ~Failed(j)
          /\ embResult[j] # embResult[i]

(***************************************************************************)
(* The source parser                                                       *)
(***************************************************************************)

\* The chunks of one type in a chunk list.
OfType(chunks, type) == SelectSeq(chunks, LAMBDA c : c.metadata.type = type)

\* The declarations of a text, counted on its tokens.
NumTokens(code, kinds) ==
    Cardinality({k \in 1..Len(TokenStream(code, 1)) : TokenStream(code, 1)[k].t \in kinds})

NumMethods(code) == NumTokens(code, {"mopen", "mdecl"})

NumTypes(code) == NumTokens(code, {"class", "interface"})

WellFormed(code) == javalang_parse(code).ok

\* The method declarations whose line-sliced body is empty after trimming.
NumDropped(code) ==
    LET tree == javalang_parse(code)
        lines == splitlines(code)
    IN  Cardinality({k \in 1..Len(tree.methods) :
            \A n \in 1..Len(lines) :
                (StartLine(tree.methods[k]) <= n /\ n <= EndLine(tree.methods[k]))
                    => lines[n] = ""})

\* C5: a source text whose structural parse fails yields the empty chunk
\* list, and the call returns.
C5_ParseFailureYieldsNoChunks ==
    /\ parsePc \in {"idle", "ready", "returned"}
    /\ (parsePc = "returned" /\ ~WellFormed(parseIn.code)) => parseOut = <<>>

\* An ill-formed text that holds a type header has been parsed.
C5_Witness ==
    /\ parsePc = "returned"
    /\ ~WellFormed(parseIn.code)
    /\ NumTypes(parseIn.code) >= 1

\* C6 as claimed: every well-formed text with N method declarations yields
\* N method chunks less the dropped ones, at least one full-unit chunk, and
\* start_line <= end_line on every method chunk.
C6_MethodChunksAndFullUnit ==
    (parsePc = "returned" /\ WellFormed(parseIn.code)) =>
        /\ Len(OfType(parseOut, "method"))
              = NumMethods(parseIn.code) - NumDropped(parseIn.code)
        /\ Len(OfType(parseOut, "full_class")) >= 1
        /\ \A k \in 1..Len(parseOut) :
              parseOut[k].metadata.type = "method" =>
                  parseOut[k].metadata.start_line <= parseOut[k].metadata.end_line

\* C6 amended: the full-unit chunk is there when the text declares a type;
\* a well-formed text that declares none yields no chunk.
C6_MethodChunksAndFullUnitIfTyped ==
    (parsePc = "returned" /\ WellFormed(parseIn.code)) =>
        /\ Len(OfType(parseOut, "method"))
              = NumMethods(parseIn.code) - NumDropped(parseIn.code)
        /\ NumTypes(parseIn.code) >= 1 => Len(OfType(parseOut, "full_class")) >= 1
        /\ NumTypes(parseIn.code) = 0 => parseOut = <<>>
        /\ \A k \in 1..Len(parseOut) :
              parseOut[k].metadata.type = "method" =>
                  parseOut[k].metadata.start_line <= parseOut[k].metadata.end_line

\* A well-formed text with two method declarations, one without a body, has
\* been parsed.
C6_Witness ==
    /\ parsePc = "returned"
    /\ WellFormed(parseIn.code)
    /\ NumMethods(parseIn.code) = 2
    /\ NumTokens(parseIn.code, {"mdecl"}) = 1
    /\ Len(OfType(parseOut, "method")) = 2

\* C7: the end_line of every method chunk is at most the number of lines
\* of the source text.
C7_EndLineWithinText ==
    parsePc = "returned" =>
        \A k \in 1..Len(parseOut) :
            parseOut[k].metadata.type = "method" =>
                parseOut[k].metadata.end_line <= Len(splitlines(parseIn.code))

(***************************************************************************)
(* Retrieval and ingestion                                                 *)
(***************************************************************************)

\* C1: a retrieval for one project never returns a hit whose chunk carries
\* another project's id, or whose file lies under another project's
\* extraction tree, whatever was ingested before, for every query and k.
C1_RetrievalScoping ==
    ret.pc = "done" =>
        /\ \A k \in 1..Len(ret.hits) :
              /\ ret.hits[k].project_id = ret.project_id
              /\ ret.hits[k].file_path[1] = ret.project_id
        /\ \A k \in 1..Len(ret.result) :
              IF ret.variant = "context"
              THEN ret.result[k].file_path[1] = ret.project_id
              ELSE ret.result[k].file[1] = ret.project_id

\* A retrieval for project A returned hits while the index also held
\* chunks of project B.
C1_Witness ==
    /\ ret.pc = "done"
    /\ ret.project_id = "A"
    /\ Len(ret.hits) >= 1
    /\ EntriesOf(index, "B") # {}

\* C8: a retrieval with an empty or whitespace-only query ends in the
\* invalid-input error, having made no provider request and no index query.
C8_EmptyQueryRejected ==
    (ret.pc \in {"done", "failed"} /\ query_strip(ret.query) = "") =>
        /\ ret.pc = "failed"
        /\ ret.error = "HTTPException 400"
        /\ ret.calls = 0
        /\ ret.queries = 0

\* C9: ingesting a project again overwrites no entry: every step leaves the
\* entries there are as they were, no project's entry count decreases, no
\* run fails on an identifier already used, and a run that completes has
\* added every one of its chunks to those its project had before.
C9_ReingestionOnlyAdds ==
    [][ /\ \A id \in DOMAIN index :
              id \in DOMAIN index' /\ index'[id] = index[id]
        /\ \A p \in Projects :
              Cardinality(EntriesOf(index', p)) >= Cardinality(EntriesOf(index, p))
        /\ ing'.pc = "failed" => ing'.error # "DuplicateIDError"
        /\ (ing.pc = "upsert" /\ ing'.pc = "done") =>
              Cardinality(EntriesOf(index', ing.project_id))
                  = ing.before + Len(ing.all_chunks)
      ]_vars

\* A second run of a project with unchanged source has completed: the
\* project has twice the chunks of one run.
C9_Witness ==
    /\ ing.pc = "done"
    /\ Len(ing.all_chunks) > 0
    /\ ing.before = Len(ing.all_chunks)
    /\ Cardinality(EntriesOf(index, ing.project_id)) = 2 * Len(ing.all_chunks)

\* A project whose only source file is well-formed and declares one class
\* with one method and nothing else.
OneClassOneMethod(project_id) ==
    LET java == Archive(project_id).java
    IN  /\ Archive(project_id).zip
        /\ Len(java) = 1
        /\ WellFormed(java[1].content)
        /\ NumTokens(java[1].content, {"class"}) = 1
        /\ NumTypes(java[1].content) = 1
        /\ NumMethods(java[1].content) = 1

\* The retrieval half of C10: retrieve_context with n_results = 1 on a
\* project that has been ingested returns one hit, of rank 1.
OneHitOfRankOne ==
    (/\ ret.pc = "done"
     /\ ret.variant = "context"
     /\ ret.n_results = 1
     /\ OneClassOneMethod(ret.project_id)
     /\ EntriesOf(index, ret.project_id) # {}) =>
        /\ Len(ret.result) = 1
        /\ ret.result[1].rank = 1

IngestEnded == ing.pc \in {"done", "failed"}

\* There is nothing to index for the project: no archive, or an archive
\* without a .java file.
NothingToIndex(project_id) ==
    ~Archive(project_id).zip \/ list_java_files(project_id) = <<>>

\* The project has .java files and none of them yields a chunk.
NoChunksParsed(project_id) ==
    /\ ~NothingToIndex(project_id)
    /\ ParseFiles(list_java_files(project_id), 1, project_id, 0) = <<>>

\* C11: an ingest run whose archive is missing, or whose archive holds no
\* .java file, ends in a failure raised to its caller, and has made no
\* embedding request and no upsert.
C11_NothingToIndexFails ==
    (IngestEnded /\ NothingToIndex(ing.project_id))
        => (ing.pc = "failed" /\ ing.calls = 0 /\ ing.upserts = 0)

\* C12: an ingest run whose files yield no chunk at all ends without
\* raising, reports a chunk count of zero, and has made no embedding
\* request and no upsert.
C12_NoChunksReportsZero ==
    (IngestEnded /\ NoChunksParsed(ing.project_id))
        => /\ ing.pc = "done"
           /\ "chunks" \in DOMAIN ing.result
           /\ ing.result.chunks = 0
           /\ ing.calls = 0 /\ ing.upserts = 0

\* C13: an ingest run that completes its batches returns the number of
\* chunks it added to the index.
C13_ReturnsChunkCount ==
    (ing.pc = "done" /\ ing.upserts > 0)
        => /\ "chunks" \in DOMAIN ing.result
           /\ ing.result.chunks =
                  Cardinality(EntriesOf(index, ing.project_id)) - ing.before

(***************************************************************************)
(* The chunks parse_java_code emits                                        *)
(***************************************************************************)

HasLine(meta, key) == key \in DOMAIN meta

\* C17 as claimed: every chunk is a method chunk or the full-unit chunk
\* (type "full_class" in the code); only method chunks carry start_line or
\* end_line, and their start_line is at least 1.
C17_MethodOrFullUnitOnly ==
    parsePc = "returned" =>
        \A k \in 1..Len(parseOut) :
            LET meta == parseOut[k].metadata
            IN  /\ meta.type \in {"method", "full_class"}
                /\ (HasLine(meta, "start_line") \/ HasLine(meta, "end_line"))
                       => meta.type = "method"
                /\ meta.type = "method" => meta.start_line >= 1

\* C17 amended: there is a third type, "class"; end_line is on the method
\* chunks only, start_line on the method and the class chunks, where it is
\* at least 1.
C17_MethodClassOrFullUnit ==
    parsePc = "returned" =>
        \A k \in 1..Len(parseOut) :
            LET meta == parseOut[k].metadata
            IN  /\ meta.type \in {"method", "class", "full_class"}
                /\ HasLine(meta, "end_line") <=> meta.type = "method"
                /\ HasLine(meta, "start_line") <=> meta.type \in {"method", "class"}
                /\ HasLine(meta, "start_line") => meta.start_line >= 1

\* A text has been parsed into chunks of all three types.
C17_Witness ==
    /\ parsePc = "returned"
    /\ \A type \in {"method", "class", "full_class"} :
          OfType(parseOut, type) # <<>>

\* C18: no emitted chunk has a text that is empty after trimming, and a
\* method whose line-sliced body is empty after trimming has no chunk.
C18_NoEmptyText ==
    parsePc = "returned" =>
        /\ \A k \in 1..Len(parseOut) : strip(parseOut[k].text) # <<>>
        /\ WellFormed(parseIn.code) =>
               Len(OfType(parseOut, "method"))
                   = NumMethods(parseIn.code) - NumDropped(parseIn.code)

\* A text with a method whose sliced body is empty has been parsed, and its
\* other chunks emitted.
C18_Witness ==
    /\ parsePc = "returned"
    /\ WellFormed(parseIn.code)
    /\ NumDropped(parseIn.code) >= 1
    /\ OfType(parseOut, "method") = <<>>
    /\ OfType(parseOut, "full_class") # <<>>

(***************************************************************************)
(* The outcome of a retrieval                                              *)
(***************************************************************************)

\* The retrieval has returned and its caller has not yet taken the result.
RetrieveDone == ret.pc = "done" /\ ret.queries = 1

\* C14: retrieve_context(project_id, query, n_results) asks the index for
\* n_results entries: it returns n_results hits when the project has that
\* many entries and all of the project's entries when it has fewer, so at
\* most n_results in either case.
C14_AtMostNResults ==
    (RetrieveDone /\ ret.variant = "context") =>
        /\ Len(ret.result) <= ret.n_results
        /\ Len(ret.result)
              = Min(ret.n_results, Cardinality(EntriesOf(index, ret.project_id)))

\* retrieve_context returned one hit, as asked, of a project with more
\* entries than that.
C14_Witness ==
    /\ RetrieveDone
    /\ ret.variant = "context"
    /\ ret.n_results = 1
    /\ Len(ret.result) = 1
    /\ Cardinality(EntriesOf(index, ret.project_id)) > 1

\* C15: a retrieval whose query of the index comes back without a hit, as
\* for a project that has no entry, returns the empty result; it does not
\* raise.
C15_NoHitsGivesEmptyResult ==
    /\ (RetrieveDone /\ ret.hits = <<>>) => ret.result = <<>>
    /\ (ret.pc \in {"done", "failed"} /\ ret.queries = 1
            /\ EntriesOf(index, ret.project_id) = {}
            /\ ret.error # "InvalidDimensionException")
          => (ret.pc = "done" /\ ret.result = <<>>)

\* A retrieval for a project that was never ingested has returned with no
\* hit while the index held another project's entries.
C15_Witness ==
    /\ RetrieveDone
    /\ ret.result = <<>>
    /\ EntriesOf(index, ret.project_id) = {}
    /\ DOMAIN index # {}

\* C16: the hits of a result carry the ranks 1..m in the order of the
\* index's response, and the line range of a hit has "?" wherever the
\* chunk's metadata has no such line: for both ends on a full-unit chunk,
\* for the end on a class chunk, for neither on a method chunk.
C16_RanksAndLinePlaceholders ==
    RetrieveDone =>
        /\ Len(ret.result) = Len(ret.hits)
        /\ \A k \in 1..Len(ret.result) :
              LET hit == ret.result[k]
                  meta == ret.hits[k]
              IN  /\ hit.rank = k
                  /\ hit.name = meta.name
                  /\ meta.type = "full_class" => hit.lines = <<"?", "?">>
                  /\ meta.type = "class"
                        => hit.lines = <<ToString(meta.start_line), "?">>
                  /\ meta.type = "method"
                        => hit.lines = <<ToString(meta.start_line),
                                         ToString(meta.end_line)>>

\* A retrieval returned a method chunk and a full-unit chunk among its
\* hits.
C16_Witness ==
    /\ RetrieveDone
    /\ Len(ret.result) >= 2
    /\ \E k \in 1..Len(ret.hits) : ret.hits[k].type = "full_class"
    /\ \E k \in 1..Len(ret.hits) : ret.hits[k].type = "method"

(***************************************************************************)
(* The batches of an ingest run                                            *)
(***************************************************************************)

\* The chunks of the run's batches before the one at offset i are in the
\* index as the run upserted them.
EarlierBatchesKept(idx) ==
    \A k \in 1..ing.i :
        /\ ing.all_chunks[k].id \in DOMAIN idx
        /\ idx[ing.all_chunks[k].id].document = ing.all_chunks[k].text
        /\ idx[ing.all_chunks[k].id].metadata = ing.all_chunks[k].metadata

\* C19: every entry a step adds to the index is added by the upsert of an
\* ingest run and carries the project id of that run, whatever its type
\* and its file.
C19_UpsertedChunksCarryProject ==
    [][ \A id \in DOMAIN index' \ DOMAIN index :
            /\ ing.pc = "upsert"
            /\ index'[id].metadata.project_id = ing.project_id ]_vars

\* A run has put chunks of every type, from two files, into the index.
C19_Witness ==
    /\ \A type \in {"method", "class", "full_class"} :
          \E id \in EntriesOf(index, "B") : index[id].metadata.type = type
    /\ \E id1, id2 \in EntriesOf(index, "B") :
          index[id1].metadata.file_path # index[id2].metadata.file_path

\* C20: a batch whose upsert fails ends the run in a failure raised to the
\* caller: the index is left as it was, with the chunks of the batches
\* before it, the texts of no later batch have been sent to the provider,
\* and nothing follows but the caller taking the failure.
C20_BatchFailureAborts ==
    [][ /\ (ing.pc = "upsert" /\ ing' # ing /\ index' = index) =>
              /\ ing'.pc = "failed"
              /\ ing'.error # ""
              /\ EarlierBatchesKept(index')
              /\ Cardinality(EntriesOf(index', ing.project_id)) = ing.before + ing.i
              /\ ing'.calls = Min(ing.i + BATCH_SIZE, Len(ing.all_chunks))
              /\ ing'.upserts = (ing.i \div BATCH_SIZE) + 1
        /\ ing.pc = "failed" => (index' = index /\ ing' = IngIdle)
      ]_vars

\* The second batch of a run has failed and the first is in the index.
C20_Witness ==
    /\ ing.pc = "failed"
    /\ ing.i = BATCH_SIZE
    /\ Cardinality(EntriesOf(index, ing.project_id)) = ing.before + BATCH_SIZE

\* The batches of the loop `for i in range(0, len(seq), BATCH_SIZE)`, from
\* offset i on.
RECURSIVE BatchesFrom(_, _)
BatchesFrom(seq, i) ==
    IF i >= Len(seq) THEN <<>>
    ELSE <<Batch(seq, i)>> \o BatchesFrom(seq, i + BATCH_SIZE)

RECURSIVE Flatten(_)
Flatten(seqs) == IF seqs = <<>> THEN <<>> ELSE seqs[1] \o Flatten(Tail(seqs))

\* The chunks of the batch the run is at.
CurrentBatch == Batch(ing.all_chunks, ing.i)

\* C21: the batches of a run go one after the other.  Before the embedding
\* call of the batch at offset i every batch before it has been embedded
\* and upserted and nothing of it or of a later batch has been sent; before
\* its upsert its embedding call has returned with its vectors, and nothing
\* of a later batch has been sent.
C21_BatchesSequential ==
    /\ ing.pc = "embed" =>
          /\ ing.calls = ing.i
          /\ ing.upserts = ing.i \div BATCH_SIZE
          /\ Cardinality(EntriesOf(index, ing.project_id)) = ing.before + ing.i
    /\ ing.pc = "upsert" =>
          /\ ing.calls = ing.i + Len(CurrentBatch)
          /\ Len(ing.embeddings) = Len(CurrentBatch)
          /\ ing.upserts = ing.i \div BATCH_SIZE
          /\ Cardinality(EntriesOf(index, ing.project_id)) = ing.before + ing.i

\* The second batch of a run is about to be embedded.
C21_Witness ==
    /\ ing.pc = "embed"
    /\ ing.i = BATCH_SIZE
    /\ ing.upserts = 1

\* C23: the batches of a run are its chunk list cut into consecutive
\* pieces of BATCH_SIZE chunks, the last one of at most BATCH_SIZE; a run
\* that completes has put every one of its chunks into the index, each
\* under an id of its own.
C23_BatchesPartitionChunks ==
    LET n == Len(ing.all_chunks)
        batches == BatchesFrom(ing.all_chunks, 0)
    IN  /\ Flatten(batches) = ing.all_chunks
        /\ \A j \in 1..Len(batches) :
              /\ Len(batches[j]) >= 1
              /\ Len(batches[j]) <= BATCH_SIZE
              /\ j < Len(batches) => Len(batches[j]) = BATCH_SIZE
        /\ (ing.pc = "done" /\ ing.upserts > 0) =>
              /\ ing.upserts = Len(batches)
              /\ Cardinality({ing.all_chunks[k].id : k \in 1..n}) = n
              /\ \A k \in 1..n :
                    /\ ing.all_chunks[k].id \in DOMAIN index
                    /\ index[ing.all_chunks[k].id].document = ing.all_chunks[k].text
              /\ Cardinality(EntriesOf(index, ing.project_id)) = ing.before + n

\* A run of two batches, the second shorter than BATCH_SIZE, has completed.
C23_Witness ==
    /\ ing.pc = "done"
    /\ ing.upserts = 2
    /\ Len(ing.all_chunks) > BATCH_SIZE
    /\ Len(ing.all_chunks) < 2 * BATCH_SIZE

\* The vector _embed_single makes of a response of the provider.
VectorOf(resp) == IF resp.kind = "ok" THEN resp.embedding ELSE ZeroVector

\* C24: the upsert of a batch is given as many vectors as it is given ids,
\* documents and metadatas; the vector at a position is the one made of the
\* provider's answer to the text at that position, and an upsert that
\* succeeds stores it under the id, with the text and the metadata, of the
\* chunk at that position.
C24_UpsertListsAligned ==
    [][ ing.pc = "upsert" =>
          /\ Len(ing.embeddings) = Len(CurrentBatch)
          /\ Len(ing.resps) = Len(CurrentBatch)
          /\ \A k \in 1..Len(CurrentBatch) :
                /\ ing.embeddings[k] = VectorOf(ing.resps[k])
                /\ index' # index =>
                      index'[CurrentBatch[k].id]
                          = [embedding |-> VectorOf(ing.resps[k]),
                             document |-> CurrentBatch[k].text,
                             metadata |-> CurrentBatch[k].metadata]
      ]_vars

\* A batch whose first request failed has been upserted: the zero vector
\* is stored with the first chunk of the batch and with no other.
C24_Witness ==
    /\ ing.pc \in {"embed", "done"}
    /\ ing.upserts >= 1
    /\ ing.resps # <<>>
    /\ ing.resps[1].kind = "timeout"
    /\ \E k \in 1..Len(ing.all_chunks) :
          /\ ing.all_chunks[k].id \in DOMAIN index
          /\ index[ing.all_chunks[k].id].embedding = ZeroVector
    /\ \E k \in 1..Len(ing.all_chunks) :
          /\ ing.all_chunks[k].id \in DOMAIN index
          /\ index[ing.all_chunks[k].id].embedding # ZeroVector

\* The chunks of a chunk list that come from one file.
OfFile(chunks, path) == SelectSeq(chunks, LAMBDA c : c.metadata.file_path = path)

\* C25: a file that does not parse leaves the run going: the chunk list of
\* the run holds every chunk of every file that parses, those listed
\* before the failing file and those listed after it, and a run that
\* completes has put them into the index.
C25_ParseFailureSkipsFile ==
    (ing.pc \in {"embed", "upsert", "done"} /\ ing.files > 0) =>
        LET files == list_java_files(ing.project_id)
        IN  \A f \in 1..Len(files) :
              WellFormed(files[f].content) =>
                 /\ Len(OfFile(ing.all_chunks, files[f].path))
                       = Len(parse_java_code(files[f].content, files[f].path,
                                             ing.project_id, 0))
                 /\ (ing.pc = "done" /\ ing.upserts > 0) =>
                       \A k \in 1..Len(ing.all_chunks) :
                           ing.all_chunks[k].id \in DOMAIN index

\* A run over a file that parses, one that does not and another that
\* parses has completed with the chunks of the first and of the last.
C25_Witness ==
    LET files == list_java_files(ing.project_id)
    IN  /\ ing.pc = "done"
        /\ ing.upserts > 0
        /\ Len(files) = 3
        /\ ~WellFormed(files[2].content)
        /\ OfFile(ing.all_chunks, files[1].path) # <<>>
        /\ OfFile(ing.all_chunks, files[3].path) # <<>>

(***************************************************************************)
(* The event loop                                                          *)
(***************************************************************************)

\* C22: no embedding call holds the event loop.  While an ingest run is
\* between its batches, a retrieve_context whose embedding has come back
\* from its worker thread can go on.
C22_EmbeddingOffTheLoop ==
    (IngestRunning /\ ret.variant = "context" /\ ret.pc = "embedded")
        => ENABLED RetrieveContextResume

(***************************************************************************)
(* The order and the texts of the chunks of a source text                  *)
(***************************************************************************)

\* The types of the chunks of a list, in order.
TypesOf(chunks) == [k \in 1..Len(chunks) |-> chunks[k].metadata.type]

\* The name of the first type a text declares.
FirstTypeName(code) ==
    LET toks == TokenStream(code, 1)
        k == CHOOSE k \in 1..Len(toks) :
                 /\ toks[k].t \in {"class", "interface"}
                 /\ \A j \in 1..(k - 1) : toks[j].t \notin {"class", "interface"}
    IN  toks[k].name

\* C26 as claimed: the chunks of a text that parses are its full-unit
\* chunks and then its method chunks; the text of a full-unit chunk is the
\* whole source text and its name that of the first type declared.
C26_FullUnitFirst ==
    (parsePc = "returned" /\ WellFormed(parseIn.code)) =>
        /\ \A j, k \in 1..Len(parseOut) :
              (parseOut[j].metadata.type = "full_class"
                  /\ parseOut[k].metadata.type = "method") => j < k
        /\ \A k \in 1..Len(parseOut) :
              parseOut[k].metadata.type = "full_class" =>
                  /\ parseOut[k].text = parseIn.code
                  /\ parseOut[k].metadata.name = FirstTypeName(parseIn.code)

\* C26 amended: the method chunks come first, then the class chunks, then
\* the one full-unit chunk of a text that declares a type; its text is the
\* source text without the white space at its ends.
C26_FullUnitLast ==
    (parsePc = "returned" /\ WellFormed(parseIn.code)) =>
        /\ TypesOf(parseOut)
              = TypesOf(OfType(parseOut, "method")) \o TypesOf(OfType(parseOut, "class"))
                    \o TypesOf(OfType(parseOut, "full_class"))
        /\ Len(OfType(parseOut, "full_class"))
              = IF NumTypes(parseIn.code) >= 1 THEN 1 ELSE 0
        /\ \A k \in 1..Len(parseOut) :
              parseOut[k].metadata.type = "full_class" =>
                  /\ k = Len(parseOut)
                  /\ parseOut[k].text = strip(parseIn.code)
                  /\ parseOut[k].metadata.name = FirstTypeName(parseIn.code)

\* A text that begins with a blank line has been parsed into a method
\* chunk, a class chunk and a full-unit chunk.
C26_Witness ==
    /\ parsePc = "returned"
    /\ Len(parseIn.code) >= 1
    /\ parseIn.code[1] = ""
    /\ TypesOf(parseOut) = <<"method", "class", "full_class">>

\* The positions in a token stream of the method declarations, in order.
MethodTokens(toks) ==
    LET at == {k \in 1..Len(toks) : toks[k].t \in {"mopen", "mdecl"}}
        nth[n \in 1..Cardinality(at)] ==
            CHOOSE k \in at : Cardinality({j \in at : j < k}) = n - 1
    IN  [n \in 1..Cardinality(at) |-> nth[n]]

\* The position of the brace that closes the body open at depth `depth`
\* before position k.
RECURSIVE ClosingToken(_, _, _)
ClosingToken(toks, k, depth) ==
    IF toks[k].t = "close"
    THEN IF depth = 1 THEN k ELSE ClosingToken(toks, k + 1, depth - 1)
    ELSE IF toks[k].t \in {"class", "interface", "mopen"}
    THEN ClosingToken(toks, k + 1, depth + 1)
    ELSE ClosingToken(toks, k + 1, depth)

\* The last line of the method declared at position k: its own line if it
\* has no body, the line of its closing brace if it has one.
LastLine(toks, k) ==
    IF toks[k].t = "mdecl" THEN toks[k].line
    ELSE toks[ClosingToken(toks, k + 1, 1)].line

\* C27: the chunk of every method declaration spans the declaration:
\* start_line is its first line, end_line the line of its closing brace,
\* and the text is the source lines from the one to the other.
C27_MethodTextSpansDeclaration ==
    (parsePc = "returned" /\ WellFormed(parseIn.code)
        /\ NumDropped(parseIn.code) = 0) =>
        LET toks == TokenStream(parseIn.code, 1)
            decls == MethodTokens(toks)
            chunks == OfType(parseOut, "method")
        IN  /\ Len(chunks) = Len(decls)
            /\ \A n \in 1..Len(chunks) :
                  LET first == toks[decls[n]].line
                      last == LastLine(toks, decls[n])
                  IN  /\ chunks[n].metadata.start_line = first
                      /\ chunks[n].metadata.end_line = last
                      /\ chunks[n].text = SubSeq(parseIn.code, first, last)

(***************************************************************************)
(* SpecGen: generate_java_tests of generateTest_controller.py.  An action  *)
(* is the code a request runs between two suspensions of its coroutine:    *)
(* the awaits of db.execute and db.fetchrow and, per class, the await of   *)
(* retrieve_context's worker thread.  ingest_project, getOllamaChat and    *)
(* run_maven_tests never suspend.                                          *)
(***************************************************************************)

\* The most testable classes an archive holds.
MaxClasses == 2

PomStates == {"absent", "unpatched", "patched"}

\* zipfile.extractall into the emptied folder: the archive's files and no
\* test file.
Extracted == [exists |-> TRUE, pom |-> env.pom, tests |-> {}]

\* ensure_maven_dependencies(pom_path): the pom.xml with the JUnit and
\* Mockito dependencies and the JaCoCo plugin.
ensure_maven_dependencies(folder) == [folder EXCEPT !.pom = "patched"]

\* extract_project_zip of app/rag/ingestion.py, as ingest_project calls it:
\* its folder is PROJECT_ROOT/temp_extracted/<id>, which is the request's
\* folder when the working directory is the project root; it removes the
\* folder and extracts the archive again.
extract_project_zip(folder) == IF env.same_dir THEN Extracted ELSE folder

\* The except clause of generate_java_tests is entered with exception e.
Raise(q, e) == [q EXCEPT !.pc = "handler", !.error = e]

\* UPDATE public.unittest SET status = ... WHERE id = ...: no row, no change.
UpdateStatus(status) == IF job = "none" THEN "none" ELSE status

\* A request arrives: get_postgres, then the UPDATE to 'in-progress'.
GenStart(r) ==
    /\ reqs[r].pc = "idle"
    /\ job' = UpdateStatus("in-progress")
    /\ reqs' = [reqs EXCEPT ![r].pc = "fetch", ![r].in_progress = (job # "none")]
    /\ UNCHANGED <<env, xdir>>
    /\ UNCHANGED <<mainVars, parseVars, embVars>>

\* From the row fetched to the first await of the generation loop: the
\* checks, the extraction, the patch of pom.xml, the whole of
\* ingest_project and the listing of the classes.  ingest_ok is whether
\* ingest_project returned.
GenExtract(r, ingest_ok) ==
    /\ reqs[r].pc = "fetch"
    /\ LET q == reqs[r]
           patched == ensure_maven_dependencies(Extracted)
           ingested == extract_project_zip(patched)
       IN  IF job = "none"
           THEN /\ reqs' = [reqs EXCEPT ![r] = Raise(q, "404 Project not found.")]
                /\ UNCHANGED xdir
           ELSE IF ~env.zip
           THEN /\ reqs' = [reqs EXCEPT ![r] = Raise(q, "404 ZIP not found.")]
                /\ UNCHANGED xdir
           ELSE IF env.pom = "absent"
           THEN /\ reqs' = [reqs EXCEPT ![r] = Raise(q, "400 pom.xml not found.")]
                /\ xdir' = Extracted
           ELSE /\ xdir' = ingested
                /\ reqs' = [reqs EXCEPT ![r] =
                      IF ~ingest_ok THEN Raise(q, "500 RAG ingestion failed")
                      ELSE IF env.classes = 0
                      THEN Raise(q, "400 No testable classes found.")
                      ELSE [q EXCEPT !.pc = "generate", !.classes = env.classes]]
    /\ UNCHANGED <<env, job>>
    /\ UNCHANGED <<mainVars, parseVars, embVars>>

\* The generation loop from the return of retrieve_context for class k + 1
\* to the next await: the test is written unless it is empty; after the
\* last class, run_maven_tests.  outcome is what the generation gave and
\* success whether mvn ended with 0.
GenClass(r, outcome, success) ==
    /\ reqs[r].pc = "generate"
    /\ LET q == reqs[r]
           c == q.k + 1
           folder == IF outcome = "written"
                     THEN [xdir EXCEPT !.exists = TRUE, !.tests = @ \cup {c}]
                     ELSE xdir
           q1 == [q EXCEPT !.k = c,
                           !.written = IF outcome = "written" THEN @ \cup {c} ELSE @]
       IN  IF outcome = "error"
           THEN /\ reqs' = [reqs EXCEPT ![r] = Raise(q, "unexpected exception")]
                /\ UNCHANGED xdir
           ELSE /\ xdir' = folder
                /\ reqs' = [reqs EXCEPT ![r] =
                      IF c < q.classes THEN q1
                      ELSE IF folder.pom = "absent"
                      THEN Raise(q1, "400 pom.xml directory not found.")
                      ELSE [q1 EXCEPT !.pc = "set_status",
                                      !.maven_pom = folder.pom,
                                      !.maven_tests = folder.tests,
                                      !.success = success,
                                      !.status = IF success THEN "completed"
                                                 ELSE "failed"]]
    /\ UNCHANGED <<env, job>>
    /\ UNCHANGED <<mainVars, parseVars, embVars>>

\* The UPDATE to the status of the Maven run, and the response.
GenSetStatus(r) ==
    /\ reqs[r].pc = "set_status"
    /\ job' = UpdateStatus(reqs[r].status)
    /\ reqs' = [reqs EXCEPT ![r].pc = "returned", ![r].set_status = reqs[r].status]
    /\ UNCHANGED <<env, xdir>>
    /\ UNCHANGED <<mainVars, parseVars, embVars>>

\* An except clause that raises without the UPDATE.
GenHandler_raise_only(r) ==
    /\ reqs[r].pc = "handler"
    /\ reqs' = [reqs EXCEPT ![r].pc = "raised"]
    /\ UNCHANGED <<env, job, xdir>>
    /\ UNCHANGED <<mainVars, parseVars, embVars>>

\* The except clause: the UPDATE to 'failed', then HTTPException(500).
GenHandler(r) ==
    /\ reqs[r].pc = "handler"
    /\ job' = UpdateStatus("failed")
    /\ reqs' = [reqs EXCEPT ![r].pc = "raised", ![r].set_status = "failed"]
    /\ UNCHANGED <<env, xdir>>
    /\ UNCHANGED <<mainVars, parseVars, embVars>>

\* Any upload: with or without an archive, a pom.xml, testable classes and
\* a row for the id; the server started in the project root or elsewhere.
InitGen ==
    /\ env \in [zip : BOOLEAN, pom : PomStates, classes : 0..MaxClasses,
                same_dir : BOOLEAN]
    /\ job \in {"none", "uploaded"}
    /\ xdir = NoFolder
    /\ reqs = [r \in Requests |-> ReqIdle]
    /\ MainIdle /\ ParseIdle /\ EmbedIdle

NextGen ==
    \/ \E r \in Requests : GenStart(r)
    \/ \E r \in Requests, ingest_ok \in BOOLEAN : GenExtract(r, ingest_ok)
    \/ \E r \in Requests, outcome \in {"written", "empty", "error"},
          success \in BOOLEAN : GenClass(r, outcome, success)
    \/ \E r \in Requests : GenSetStatus(r)
    \/ \E r \in Requests : GenHandler(r)

SpecGen == InitGen /\ [][NextGen]_vars

(***************************************************************************)
(* Test generation: the job status and the extraction folder               *)
(***************************************************************************)

Ended(r) == reqs[r].pc \in {"returned", "raised"}

\* The request has run Maven.
RanMaven(r) == reqs[r].maven_pom # ""

\* C28: a request that has set the status 'in-progress' has set it to
\* 'completed' or 'failed' when it returns or raises, whatever the path,
\* and to 'completed' only after a Maven run that succeeded; with no
\* request under way the status is not 'in-progress'.
C28_StatusNeverLeftInProgress ==
    /\ \A r \in Requests :
          (Ended(r) /\ reqs[r].in_progress) =>
              /\ reqs[r].set_status \in {"completed", "failed"}
              /\ reqs[r].set_status = "completed" =>
                    (reqs[r].pc = "returned" /\ RanMaven(r) /\ reqs[r].success)
    /\ (\A r \in Requests : reqs[r].pc = "idle" \/ Ended(r)) => job # "in-progress"

\* One request has returned with 'completed' and the other has raised
\* after a failed ingestion.
C28_Witness ==
    \E r1, r2 \in Requests :
        /\ reqs[r1].pc = "returned"
        /\ reqs[r1].set_status = "completed"
        /\ reqs[r2].pc = "raised"
        /\ reqs[r2].error = "500 RAG ingestion failed"
        /\ reqs[r2].set_status = "failed"

\* C29: with both modules resolving temp_extracted/<id> to one folder, the
\* pom.xml that run_maven_tests finds is the one ensure_maven_dependencies
\* wrote.
C29_PatchedPomAtMaven ==
    \A r \in Requests :
        (RanMaven(r) /\ env.same_dir) => reqs[r].maven_pom = "patched"

\* C30: while a request is between its extraction and its Maven run the
\* folder holds every test file it has written, its Maven run finds them
\* all, and the classes it listed are those of the archive.
C30_FolderNotDisturbed ==
    \A r \in Requests :
        /\ reqs[r].pc = "generate" =>
              /\ reqs[r].written \subseteq xdir.tests
              /\ reqs[r].classes = env.classes
        /\ RanMaven(r) =>
              /\ reqs[r].written \subseteq reqs[r].maven_tests
              /\ reqs[r].classes = env.classes

=============================================================================
